---- MODULE Spec2Model ----
\* Block acquisition pipeline of obtc-electrs (src/new_index/fetch.rs): the RPC
\* path (bitcoind_fetcher), the block-file path (blkfiles_reader ->
\* blkfiles_parser -> blkfiles_fetcher), the consumer-side drain loop
\* (Fetcher::map) and the block-file scanner (parse_blocks).
EXTENDS Integers, Sequences, FiniteSets, TLC

VARIABLES
    from,         \* FetchFrom: "Bitcoind" | "BlkFiles" ("None": no fetch running)
    new_headers,  \* Vec<HeaderEntry> handed to start_fetcher
    blk_files,    \* number of paths returned by daemon.list_blk_files()
    \* --- caller thread: Fetcher::map on the outer fetcher
    caller_pc,    \* "drain" | "done" (returned) | "panicked"
    delivered,    \* the batches func was invoked on, in call order
    chan_out,     \* SyncChannel<Vec<BlockEntry>>: worker -> caller
    published,    \* the batches sent on chan_out, in send order
    \* --- bitcoind_fetcher worker
    rpc_pc,       \* "fetch" | "send" | "done" | "panicked" | "idle"
    rpc_off,      \* headers consumed by the chunks() iterator so far
    rpc_out,      \* block_entries built for the current chunk
    requests,     \* the getblocks requests issued, in order
    replies,      \* the daemon's answer to each request, in order
    \* --- blkfiles_reader worker
    rd_pc,        \* "read" | "send" | "done" | "panicked" | "idle"
    rd_idx,       \* index of the file being read (1-based)
    rd_blob,      \* blob read from the current file
    reads,        \* the fs::read calls, in order: <<file index, succeeded>>
    blobs,        \* the blobs sent on chan_blob, in send order
    chan_blob,    \* SyncChannel<Vec<u8>>: reader -> parser
    \* --- blkfiles_parser worker
    ps_pc,        \* "recv" | "parse" | "send" | "done" | "panicked" | "idle"
    ps_blob,      \* the blob received and not yet parsed
    ps_out,       \* Vec<SizedBlock> parsed from the current blob
    ps_recvd,     \* blobs received so far
    ps_sent,      \* SizedBlock batches sent so far
    sized,        \* the batches sent on chan_sized, in send order
    chan_sized,   \* SyncChannel<Vec<SizedBlock>>: parser -> matcher
    \* --- blkfiles_fetcher worker (the matcher)
    mt_pc,        \* "recv" | "send" | "done" | "panicked" | "idle"
    mt_out,       \* block_entries built from the current SizedBlock batch
    mt_recvd,     \* SizedBlock batches received so far
    entry_map,    \* HashMap<BlockHash, HeaderEntry>: the pending map
    decoded,      \* identities of all blocks the matcher has looked up
    panic_count,  \* the count in "failed to index {} blocks" (-1: not raised)
    \* --- parse_blocks, stepped one loop iteration at a time
    pb_pc,        \* "scan" | "exit" | "err" | "panic" | "idle"
    pb_garbage,   \* the bytes written before the first record
    pb_trunc,     \* length field of a header written without its payload
                  \* between the garbage and the first record (-1: none)
    pb_records,   \* the payloads of the framed records that follow
    pb_blob,      \* the blob handed to parse_blocks
    pb_cursor,    \* cursor.position()
    pb_slices,    \* slices queued so far: <<payload, block_size>>
    pb_prev,      \* cursor.position() before the last iteration (-1: none)
    \* --- generateHeavyHashMatrix (src/util/heavyhash.rs), called twice
    mx_pc,        \* "fill" | "test" | "done" | "idle"
    mx_call,      \* 1 | 2: which of the two calls is running (0: none)
    mx_seed,      \* the seed argument of the running call
    mx_gen,       \* generator: <<seed it was made from, words drawn so far>>
    mx_seedings,  \* from_seed calls made by the running call
    mx_matrix,    \* the candidate matrix, rows and columns 0..63
    mx_i,         \* the next row of the candidate to fill
    mx_rejects,   \* candidates the running call has rejected
    mx_first,     \* seed and matrix returned by the first call
    rank_memo,    \* verdicts of isFullRank so far: <<matrix, verdict>>
    \* --- heavy_hash_internal (src/util/heavyhash.rs)
    hh_pc,        \* "split" | "mul" | "trunc" | "fold" | "done" | "panic" | "idle"
    hh_seed,      \* the matrix argument (the parameter is named seed)
    hh_hash1,     \* hash1: the 32 bytes of the first SHA3-256
    hh_x,         \* x: the 64 nibbles of hash1
    hh_y,         \* y: the product seed * x, indices 0..63
    hh_truncated, \* truncated: y shifted right by 10
    hh_preout,    \* preout: the bytes pushed so far
    hh_i          \* i of the fold loop

vars == <<from, new_headers, blk_files, caller_pc, delivered, chan_out, published,
          rpc_pc, rpc_off, rpc_out, requests, replies,
          rd_pc, rd_idx, rd_blob, reads, blobs, chan_blob,
          ps_pc, ps_blob, ps_out, ps_recvd, ps_sent, sized, chan_sized,
          mt_pc, mt_out, mt_recvd, entry_map, decoded, panic_count,
          pb_pc, pb_garbage, pb_trunc, pb_records, pb_blob, pb_cursor, pb_slices,
          pb_prev,
          mx_pc, mx_call, mx_seed, mx_gen, mx_seedings, mx_matrix, mx_i, mx_rejects,
          mx_first, rank_memo,
          hh_pc, hh_seed, hh_hash1, hh_x, hh_y, hh_truncated, hh_preout, hh_i>>

callerVars == <<caller_pc, delivered>>
rpcVars    == <<rpc_pc, rpc_off, rpc_out, requests, replies>>
readerVars == <<rd_pc, rd_idx, rd_blob, reads, blobs>>
parserVars == <<ps_pc, ps_blob, ps_out, ps_recvd, ps_sent, sized>>
matchVars  == <<mt_pc, mt_out, mt_recvd, entry_map, decoded, panic_count>>
inputVars  == <<from, new_headers, blk_files>>
pbVars     == <<pb_pc, pb_garbage, pb_trunc, pb_records, pb_blob, pb_cursor, pb_slices,
          pb_prev>>

mxVars     == <<mx_pc, mx_call, mx_seed, mx_gen, mx_seedings, mx_matrix, mx_i,
               mx_rejects, mx_first, rank_memo>>
hhVars     == <<hh_pc, hh_seed, hh_hash1, hh_x, hh_y, hh_truncated, hh_preout, hh_i>>

-----------------------------------------------------------------------------
\* Bounds of the model.

\* Header ids 1..MaxHeaders may be requested on the short lists.
MaxHeaders == 3
\* Longest header list handed to the RPC path.
MaxRpcHeaders == 250
\* Most block-store files listed by the daemon.
MaxFiles == 2
\* parse_blocks inputs: most garbage bytes, most records, longest payload.
MaxGarbage == 2
MaxParseRecs == 2
MaxPayload == 5
\* generateHeavyHashMatrix: seeds tried, most candidates one call rejects.
MaxSeeds == 2
MaxRejects == 2

-----------------------------------------------------------------------------
\* Program constants.

\* SyncChannel::new(1): every hop is a std::sync::mpsc::sync_channel of bound 1.
ChanCapTwo == 1 + 1
ChanCap == 1

\* new_headers.chunks(100)
ChunkSizeOff == 100 + 1
ChunkSize == 100

\* cursor.seek(SeekFrom::Current(-3)) after a 4-byte read that was not the magic.
SeekBackTwo == 1 + 1
SeekBack == 3

\* daemon.magic(): the network magic, as the 4 bytes found on disk.
MagicBytes == <<1, 2, 1, 2>>

-----------------------------------------------------------------------------
\* Small helpers.

Min(a, b) == IF a < b THEN a ELSE b

RECURSIVE AscSeq(_)
\* The elements of a finite set of integers, ascending.
AscSeq(S) ==
    IF S = {} THEN <<>>
    ELSE LET m == CHOOSE x \in S : \A y \in S : x <= y
         IN  <<m>> \o AscSeq(S \ {m})

RECURSIVE Flatten(_)
Flatten(ss) == IF ss = <<>> THEN <<>> ELSE Head(ss) \o Flatten(Tail(ss))

Range(s) == {s[i] : i \in DOMAIN s}

\* u32::consensus_encode: little-endian, 4 bytes.
U32LE(v) == <<v % 256, (v \div 256) % 256, (v \div 65536) % 256, (v \div 16777216) % 256>>

\* u32::consensus_decode of the 4 bytes at 0-based offset pos.
U32At(bytes, pos) ==
    bytes[pos + 1] + 256 * bytes[pos + 2] + 65536 * bytes[pos + 3] + 16777216 * bytes[pos + 4]

magic == U32At(MagicBytes, 0)

-----------------------------------------------------------------------------
\* Blocks, headers and identities.

\* heavy_hash(&BlockHeader) -> BlockHash. The SHA3 / matrix arithmetic is
\* abstracted to an injective digest whose values are not headers.
heavy_hash(header) == <<"H", header>>

\* HeaderEntry at a height of the caller's list: hash() is the identity of header().
HeaderEntry(height, header) ==
    [height |-> height, hash |-> heavy_hash(header), header |-> header]

Entries(hdrs) == [i \in DOMAIN hdrs |-> HeaderEntry(i, hdrs[i])]

Block(header) == [header |-> header]

\* A block nobody asked for.
Stray == Block(0)

\* Consensus encoding of a block: the header, then a zero transaction count.
Serialize(block) == U32LE(block.header) \o <<0>>

\* deserialize(slice): fails unless the slice is exactly one encoded block.
CanDeserialize(slice) == Len(slice) = 5 /\ slice[5] = 0

Deserialize(slice) == Block(U32At(slice, 0))

\* block.get_size() as u32
GetSize(block) == Len(Serialize(block))

BlockEntry(block, entry, size) == [block |-> block, entry |-> entry, size |-> size]

-----------------------------------------------------------------------------
\* The header lists a caller may hand over.

\* Ascending ids, and the same with the tip entered twice (two entries of one
\* identity at different heights).
ShortLists ==
    LET asc == {AscSeq(S) : S \in SUBSET (1..MaxHeaders)}
    IN  asc \cup {l \o <<l[Len(l)]>> : l \in asc \ {<<>>}}

\* Distinct headers 1..n, long enough to need several chunks.
LongLists == {[i \in 1..n |-> i] : n \in (MaxHeaders + 2)..MaxRpcHeaders}

-----------------------------------------------------------------------------
\* SyncChannel (std::sync::mpsc::sync_channel): a FIFO of at most ChanCap
\* buffered messages; send blocks while the buffer is full.

CanSend(chan) == Len(chan) < ChanCap

\* A thread that has returned or unwound has dropped its Sender and Receiver.
TerminatedDoneOnly(pc) == pc = "done"
Terminated(pc) == pc \in {"done", "panicked"}

\* `for item in self.receiver` ends: the buffer is empty and the sending
\* thread, pc its position, has dropped the sender.
ExhaustedEarly(chan, pc) == Terminated(pc)
Exhausted(chan, pc) == chan = <<>> /\ Terminated(pc)

\* thread.join().expect("fetcher thread panicked")
JoinIgnoresPanic(pc) == "done"
JoinResult(pc) == IF pc = "panicked" THEN "panicked" ELSE "done"

-----------------------------------------------------------------------------
\* Fetcher::map on the caller's thread.

\* for item in self.receiver { func(item); }
DeliverSkip(calls, item) == calls
Deliver(calls, item) == Append(calls, item)

\* The worker whose JoinHandle the outer Fetcher holds.
ProducerPcParser == IF from = "Bitcoind" THEN rpc_pc ELSE ps_pc
ProducerPc == IF from = "Bitcoind" THEN rpc_pc ELSE mt_pc

CallerRecv ==
    /\ caller_pc = "drain"
    /\ chan_out # <<>>
    /\ delivered' = Deliver(delivered, Head(chan_out))
    /\ chan_out' = Tail(chan_out)
    /\ UNCHANGED <<caller_pc, published, inputVars, rpcVars, readerVars, chan_blob,
                   parserVars, chan_sized, matchVars, pbVars, mxVars, hhVars>>

\* The receiver is exhausted once the worker has dropped its sender and the
\* buffer is empty; join then re-raises the worker's panic.
CallerJoin ==
    /\ caller_pc = "drain"
    /\ Exhausted(chan_out, ProducerPc)
    /\ caller_pc' = JoinResult(ProducerPc)
    /\ UNCHANGED <<delivered, chan_out, published, inputVars, rpcVars, readerVars,
                   chan_blob, parserVars, chan_sized, matchVars, pbVars, mxVars, hhVars>>

-----------------------------------------------------------------------------
\* bitcoind_fetcher worker.

\* The slice the chunks(ChunkSize) iterator yields after off headers.
NextChunk(hdrs, off) == SubSeq(hdrs, off + 1, Min(off + ChunkSize, Len(hdrs)))

\* entries.iter().map(|e| heavy_hash(e.header())).collect()
BlockHashes(entries) == [i \in DOMAIN entries |-> heavy_hash(entries[i].header)]

\* daemon.getblocks(&blockhashes): the node collaborator. It may answer with
\* the blocks asked for in order, with two of them exchanged, with one block
\* missing or one too many, with a block nobody asked for, or with an error.
GetBlocks(blockhashes) ==
    LET m     == Len(blockhashes)
        exact == [i \in 1..m |-> Block(blockhashes[i][2])]
        swap  == [i \in 1..m |-> IF m >= 2 /\ i = 1 THEN exact[2]
                                 ELSE IF m >= 2 /\ i = 2 THEN exact[1]
                                 ELSE exact[i]]
        wrong == [i \in 1..m |-> IF i = 1 THEN Stray ELSE exact[i]]
    IN  {[ok |-> FALSE, blocks |-> <<>>]}
        \cup {[ok |-> TRUE, blocks |-> b] :
                b \in {exact, swap, wrong, SubSeq(exact, 1, m - 1), Append(exact, Stray)}}

\* assert_eq!(blocks.len(), entries.len())
LenAssertOff(blocks, entries) == TRUE
LenAssert(blocks, entries) == Len(blocks) = Len(entries)

\* blocks.into_iter().zip(entries).map(..).collect()
Zip(blocks, entries) ==
    [i \in 1..Min(Len(blocks), Len(entries)) |->
        BlockEntry(blocks[i], entries[i], GetSize(blocks[i]))]

\* One iteration of the loop up to the send: request the chunk's blocks, check
\* the count, wrap each block with its header.
RpcFetch ==
    /\ rpc_pc = "fetch"
    /\ rpc_off < Len(new_headers)
    /\ \E entries \in {NextChunk(new_headers, rpc_off)} :
       \E blockhashes \in {BlockHashes(entries)} :
           /\ requests' = Append(requests, blockhashes)
           /\ \E resp \in GetBlocks(blockhashes) :
                /\ replies' = Append(replies, resp)
                /\ IF resp.ok /\ LenAssert(resp.blocks, entries)
                   THEN /\ rpc_out' = Zip(resp.blocks, entries)
                        /\ rpc_pc' = "send"
                        /\ rpc_off' = rpc_off + Len(entries)
                   ELSE /\ rpc_out' = <<>>
                        /\ rpc_pc' = "panicked"
                        /\ UNCHANGED rpc_off
    /\ UNCHANGED <<inputVars, callerVars, chan_out, published, readerVars, chan_blob,
                   parserVars, chan_sized, matchVars, pbVars, mxVars, hhVars>>

\* sender.send(block_entries): blocks while the buffer is full. The caller
\* keeps its receiver until the sender is dropped, so the send cannot fail.
RpcSend ==
    /\ rpc_pc = "send"
    /\ CanSend(chan_out)
    /\ chan_out' = Append(chan_out, rpc_out)
    /\ published' = Append(published, rpc_out)
    /\ rpc_out' = <<>>
    /\ rpc_pc' = "fetch"
    /\ UNCHANGED <<rpc_off, requests, replies, inputVars, callerVars, readerVars, chan_blob,
                   parserVars, chan_sized, matchVars, pbVars, mxVars, hhVars>>

\* The chunks are exhausted: the closure returns and drops the sender.
RpcExit ==
    /\ rpc_pc = "fetch"
    /\ rpc_off >= Len(new_headers)
    /\ rpc_pc' = "done"
    /\ UNCHANGED <<rpc_off, rpc_out, requests, replies, inputVars, callerVars, chan_out,
                   published, readerVars, chan_blob, parserVars, chan_sized,
                   matchVars, pbVars, mxVars, hhVars>>

-----------------------------------------------------------------------------
\* parse_blocks: the scan over a blob.

\* cursor.set_position(start as u64) when the 4 bytes at start are the magic:
\* the seek over block_size bytes is undone.
GuardResetOff(start, end) == end
GuardReset(start, end) == start

\* One iteration of `while cursor.position() < max_pos`, from cursor c with the
\* slices queued so far. pc: "scan" (loop again), "exit" (loop left), "err"
\* (an Err returned through `?`), "panic" (a slice index out of range).
ScanStep(blob, c, slices) ==
    LET max_pos == Len(blob)
        stop(pc) == [pc |-> pc, cursor |-> c, slices |-> slices]
    IN  IF c >= max_pos THEN stop("exit")
        ELSE IF c + 4 > max_pos THEN stop("exit")            \* Err(_) => break
        ELSE IF U32At(blob, c) # magic
        THEN [pc |-> "scan", cursor |-> c + 4 - SeekBack, slices |-> slices]
        ELSE IF c + 8 > max_pos THEN stop("err")             \* "no block size"
        ELSE LET block_size == U32At(blob, c + 4)
                 start      == c + 8
                 end        == start + block_size
             IN  IF start + 4 > max_pos THEN stop("panic")   \* &blob[start..(start + 4)]
                 ELSE IF U32At(blob, start) = magic
                 THEN [pc |-> "scan", cursor |-> GuardReset(start, end), slices |-> slices]
                 ELSE IF end > max_pos THEN stop("panic")    \* &blob[start..end]
                 ELSE [pc |-> "scan", cursor |-> end,
                       slices |-> Append(slices, <<SubSeq(blob, start + 1, end), block_size>>)]

RECURSIVE ScanFrom(_, _, _)
\* The loop run to its end. (r ranges over the one value of the step, which
\* is thus computed once.)
ScanFrom(blob, c, slices) ==
    CHOOSE out \in {IF r.pc = "scan" THEN ScanFrom(blob, r.cursor, r.slices) ELSE r :
                       r \in {ScanStep(blob, c, slices)}} : TRUE

\* As parse_blocks, but a slice that does not decode is left out.
ParseBlocksSkipBad(blob) ==
    LET r == ScanFrom(blob, 0, <<>>)
        good == SelectSeq(r.slices, LAMBDA sl : CanDeserialize(sl[1]))
    IN  [ok |-> r.pc = "exit",
         blocks |-> [i \in DOMAIN good |-> <<Deserialize(good[i][1]), good[i][2]>>]]

\* parse_blocks(blob, magic): the scan, then every queued slice deserialized
\* (in queue order: an indexed parallel iterator collects in order). An Err of
\* the scan, a slice out of range or a slice that does not decode all end the
\* calling thread, so they are one outcome here.
parse_blocks(blob) ==
    LET r == ScanFrom(blob, 0, <<>>)
    IN  IF r.pc = "exit" /\ \A i \in DOMAIN r.slices : CanDeserialize(r.slices[i][1])
        THEN [ok |-> TRUE,
              blocks |-> [i \in DOMAIN r.slices |->
                            <<Deserialize(r.slices[i][1]), r.slices[i][2]>>]]
        ELSE [ok |-> FALSE, blocks |-> <<>>]

\* A record as Core writes it: magic, little-endian length, payload.
Frame(payload) == MagicBytes \o U32LE(Len(payload)) \o payload

\* What a block-store file may hold: no block, one block, two consecutive
\* blocks, a record that does not decode, or a block followed by such a record.
DiskBlobs ==
    LET runs == {<<>>} \cup {<<h>> : h \in 1..MaxHeaders}
                       \cup {<<h, h + 1>> : h \in 1..(MaxHeaders - 1)}
        bad  == Frame(<<0, 0, 0, 0, 1>>)
    IN  {Flatten([i \in DOMAIN r |-> Frame(Serialize(Block(r[i])))]) : r \in runs}
        \cup {bad, Frame(Serialize(Block(1))) \o bad}

-----------------------------------------------------------------------------
\* blkfiles_reader worker.

\* for path in blk_files: the list of n files has a file of index idx. The
\* loop looks at nothing else.
MoreFilesWhilePending(idx, n) == idx <= n /\ DOMAIN entry_map # {}
MoreFiles(idx, n) == idx <= n

\* fs::read(&path) returned the file's contents.
ReaderRead ==
    /\ rd_pc = "read"
    /\ MoreFiles(rd_idx, blk_files)
    /\ \E blob \in DiskBlobs : rd_blob' = blob
    /\ reads' = Append(reads, <<rd_idx, TRUE>>)
    /\ rd_pc' = "send"
    /\ UNCHANGED <<rd_idx, blobs, inputVars, callerVars, chan_out, published, rpcVars,
                   chan_blob, parserVars, chan_sized, matchVars, pbVars, mxVars, hhVars>>

\* unwrap_or_else(|e| panic!("failed to read {:?}: {:?}", path, e)): where the
\* reader stands after fs::read of file idx has failed.
AfterReadFailSkip(idx) == [pc |-> "read", idx |-> idx + 1]
AfterReadFail(idx) == [pc |-> "panicked", idx |-> idx]

\* fs::read(&path) failed.
ReaderReadFail ==
    /\ rd_pc = "read"
    /\ MoreFiles(rd_idx, blk_files)
    /\ reads' = Append(reads, <<rd_idx, FALSE>>)
    /\ rd_pc' = AfterReadFail(rd_idx).pc
    /\ rd_idx' = AfterReadFail(rd_idx).idx
    /\ UNCHANGED <<rd_blob, blobs, inputVars, callerVars, chan_out, published,
                   rpcVars, chan_blob, parserVars, chan_sized, matchVars, pbVars, mxVars, hhVars>>

\* sender.send(blob): blocks while the buffer is full.
ReaderSend ==
    /\ rd_pc = "send"
    /\ ~Terminated(ps_pc)
    /\ CanSend(chan_blob)
    /\ chan_blob' = Append(chan_blob, rd_blob)
    /\ blobs' = Append(blobs, rd_blob)
    /\ rd_blob' = <<>>
    /\ rd_idx' = rd_idx + 1
    /\ rd_pc' = "read"
    /\ UNCHANGED <<reads, inputVars, callerVars, chan_out, published, rpcVars, parserVars,
                   chan_sized, matchVars, pbVars, mxVars, hhVars>>

\* The parser thread has unwound and dropped the receiver: send returns Err,
\* panic!("failed to send ..").
ReaderSendFail ==
    /\ rd_pc = "send"
    /\ Terminated(ps_pc)
    /\ rd_pc' = "panicked"
    /\ UNCHANGED <<rd_idx, rd_blob, reads, blobs, inputVars, callerVars, chan_out, published,
                   rpcVars, chan_blob, parserVars, chan_sized, matchVars, pbVars, mxVars, hhVars>>

\* The file list is exhausted: the closure returns and drops the sender.
ReaderExit ==
    /\ rd_pc = "read"
    /\ ~MoreFiles(rd_idx, blk_files)
    /\ rd_pc' = "done"
    /\ UNCHANGED <<rd_idx, rd_blob, reads, blobs, inputVars, callerVars, chan_out, published,
                   rpcVars, chan_blob, parserVars, chan_sized, matchVars, pbVars, mxVars, hhVars>>

-----------------------------------------------------------------------------
\* blkfiles_parser worker: blobs.map(|blob| ..) on the parser's thread.

\* The next blob is received: blobs.map's `for item in self.receiver`.
ParserRecv ==
    /\ ps_pc = "recv"
    /\ chan_blob # <<>>
    /\ ps_blob' = Head(chan_blob)
    /\ chan_blob' = Tail(chan_blob)
    /\ ps_recvd' = ps_recvd + 1
    /\ ps_pc' = "parse"
    /\ UNCHANGED <<ps_out, ps_sent, sized, inputVars, callerVars, chan_out, published,
                   rpcVars, readerVars, chan_sized, matchVars, pbVars, mxVars, hhVars>>

\* parse_blocks(blob, magic).expect(..): the blob is parsed while the reader
\* runs on; a failure of parse_blocks unwinds the thread.
ParserParse ==
    /\ ps_pc = "parse"
    /\ \E r \in {parse_blocks(ps_blob)} :
          /\ ps_pc' = IF r.ok THEN "send" ELSE "panicked"
          /\ ps_out' = r.blocks
    /\ ps_blob' = <<>>
    /\ UNCHANGED <<ps_recvd, ps_sent, sized, inputVars, callerVars, chan_out, published,
                   rpcVars, readerVars, chan_blob, chan_sized, matchVars, pbVars,
                   mxVars, hhVars>>

\* sender.send(blocks). The matcher keeps its receiver until this thread has
\* dropped the sender, so the send cannot fail.
ParserSend ==
    /\ ps_pc = "send"
    /\ CanSend(chan_sized)
    /\ chan_sized' = Append(chan_sized, ps_out)
    /\ sized' = Append(sized, ps_out)
    /\ ps_out' = <<>>
    /\ ps_sent' = ps_sent + 1
    /\ ps_pc' = "recv"
    /\ UNCHANGED <<ps_blob, ps_recvd, inputVars, callerVars, chan_out, published, rpcVars,
                   readerVars, chan_blob, matchVars, pbVars, mxVars, hhVars>>

\* The blob channel is exhausted; joining the reader re-raises its panic.
ParserJoin ==
    /\ ps_pc = "recv"
    /\ Exhausted(chan_blob, rd_pc)
    /\ ps_pc' = JoinResult(rd_pc)
    /\ UNCHANGED <<ps_blob, ps_out, ps_recvd, ps_sent, sized, inputVars, callerVars, chan_out,
                   published, rpcVars, readerVars, chan_blob, chan_sized, matchVars,
                   pbVars, mxVars, hhVars>>

-----------------------------------------------------------------------------
\* blkfiles_fetcher worker (the matcher): parser.map(|sizedblocks| ..), then
\* the check of the pending map.

\* new_headers.into_iter().map(|h| (*h.hash(), h)).collect(): a later entry
\* of the same hash replaces an earlier one.
EntryMapOf(entries) ==
    [h \in {entries[i].hash : i \in DOMAIN entries} |->
        entries[CHOOSE i \in DOMAIN entries :
                    /\ entries[i].hash = h
                    /\ \A j \in DOMAIN entries : entries[j].hash = h => j <= i]]

\* entry_map.remove(&blockhash)
RemoveNothing(map, hash) == map
Remove(map, hash) == [h \in DOMAIN map \ {hash} |-> map[h]]

RECURSIVE FilterMapStop(_, _)
\* As FilterMap, but the first block that is not pending ends the batch.
FilterMapStop(sizedblocks, map) ==
    IF sizedblocks = <<>> THEN [entries |-> <<>>, map |-> map]
    ELSE LET block     == Head(sizedblocks)[1]
             size      == Head(sizedblocks)[2]
             blockhash == heavy_hash(block.header)
         IN  IF blockhash \in DOMAIN map
             THEN LET rest == FilterMapStop(Tail(sizedblocks), Remove(map, blockhash))
                  IN  [entries |-> <<BlockEntry(block, map[blockhash], size)>> \o rest.entries,
                       map |-> rest.map]
             ELSE [entries |-> <<>>, map |-> map]

RECURSIVE FilterMap(_, _)
\* sizedblocks.into_iter().filter_map(..).collect(), with the pending map it
\* leaves: a block whose identity is pending takes its entry out of the map and
\* becomes a BlockEntry; any other block is skipped.
FilterMap(sizedblocks, map) ==
    IF sizedblocks = <<>> THEN [entries |-> <<>>, map |-> map]
    ELSE LET block     == Head(sizedblocks)[1]
             size      == Head(sizedblocks)[2]
             blockhash == heavy_hash(block.header)
         IN  IF blockhash \in DOMAIN map
             THEN LET rest == FilterMap(Tail(sizedblocks), Remove(map, blockhash))
                  IN  [entries |-> <<BlockEntry(block, map[blockhash], size)>> \o rest.entries,
                       map |-> rest.map]
             ELSE FilterMap(Tail(sizedblocks), map)

\* if !entry_map.is_empty() { panic!(..) }
PendingCheckOff(map) == FALSE
PendingCheck(map) == DOMAIN map # {}

\* entry_map.len(), as reported by the panic message
PanicCountAll(map, hdrs) == Len(hdrs)
PanicCount(map, hdrs) == Cardinality(DOMAIN map)

MatcherRecv ==
    /\ mt_pc = "recv"
    /\ chan_sized # <<>>
    /\ LET sizedblocks == Head(chan_sized)
           r == FilterMap(sizedblocks, entry_map)
       IN  /\ mt_out' = r.entries
           /\ entry_map' = r.map
           /\ decoded' = decoded \cup
                {heavy_hash(sizedblocks[i][1].header) : i \in DOMAIN sizedblocks}
    /\ chan_sized' = Tail(chan_sized)
    /\ mt_recvd' = mt_recvd + 1
    /\ mt_pc' = "send"
    /\ UNCHANGED <<panic_count, inputVars, callerVars, chan_out, published, rpcVars,
                   readerVars, chan_blob, parserVars, pbVars, mxVars, hhVars>>

\* sender.send(block_entries). The caller keeps its receiver until this thread
\* has dropped the sender, so the send cannot fail.
MatcherSend ==
    /\ mt_pc = "send"
    /\ CanSend(chan_out)
    /\ chan_out' = Append(chan_out, mt_out)
    /\ published' = Append(published, mt_out)
    /\ mt_out' = <<>>
    /\ mt_pc' = "recv"
    /\ UNCHANGED <<mt_recvd, entry_map, decoded, panic_count, inputVars, callerVars,
                   rpcVars, readerVars, chan_blob, parserVars, chan_sized, pbVars, mxVars, hhVars>>

\* The SizedBlock channel is exhausted. Joining the parser re-raises its
\* panic; otherwise a non-empty pending map is fatal.
MatcherJoin ==
    /\ mt_pc = "recv"
    /\ Exhausted(chan_sized, ps_pc)
    /\ IF JoinResult(ps_pc) = "panicked"
       THEN mt_pc' = "panicked" /\ UNCHANGED panic_count
       ELSE IF PendingCheck(entry_map)
       THEN mt_pc' = "panicked" /\ panic_count' = PanicCount(entry_map, new_headers)
       ELSE mt_pc' = "done" /\ UNCHANGED panic_count
    /\ UNCHANGED <<mt_out, mt_recvd, entry_map, decoded, inputVars, callerVars,
                   chan_out, published, rpcVars, readerVars, chan_blob, parserVars,
                   chan_sized, pbVars, mxVars, hhVars>>

-----------------------------------------------------------------------------
\* The fetch: the state right after start_fetcher has returned its Fetcher.

PbIdle ==
    /\ pb_pc = "idle"
    /\ pb_garbage = <<>>
    /\ pb_trunc = -1
    /\ pb_records = <<>>
    /\ pb_blob = <<>>
    /\ pb_cursor = 0
    /\ pb_slices = <<>>
    /\ pb_prev = -1

MxIdle ==
    /\ mx_pc = "idle"
    /\ mx_call = 0
    /\ mx_seed = 0
    /\ mx_gen = <<0, 0>>
    /\ mx_seedings = 0
    /\ mx_matrix = <<>>
    /\ mx_i = 0
    /\ mx_rejects = 0
    /\ mx_first = [seed |-> 0, matrix |-> <<>>]
    /\ rank_memo = {}

HhIdle ==
    /\ hh_pc = "idle"
    /\ hh_seed = <<>>
    /\ hh_hash1 = <<>>
    /\ hh_x = <<>>
    /\ hh_y = <<>>
    /\ hh_truncated = <<>>
    /\ hh_preout = <<>>
    /\ hh_i = 0

ChannelsEmpty ==
    /\ chan_out = <<>>
    /\ chan_blob = <<>>
    /\ chan_sized = <<>>
    /\ published = <<>>
    /\ delivered = <<>>

RpcState(pc) ==
    /\ rpc_pc = pc
    /\ rpc_off = 0
    /\ rpc_out = <<>>
    /\ requests = <<>>
    /\ replies = <<>>

FileState(pc) ==
    /\ rd_pc = (IF pc = "idle" THEN "idle" ELSE "read")
    /\ rd_idx = 1
    /\ rd_blob = <<>>
    /\ reads = <<>>
    /\ blobs = <<>>
    /\ sized = <<>>
    /\ ps_pc = pc
    /\ ps_blob = <<>>
    /\ ps_out = <<>>
    /\ ps_recvd = 0
    /\ ps_sent = 0
    /\ mt_pc = pc
    /\ mt_out = <<>>
    /\ mt_recvd = 0
    /\ decoded = {}
    /\ panic_count = -1

\* start_fetcher(FetchFrom::Bitcoind, ..)
InitBitcoind ==
    /\ from = "Bitcoind"
    /\ \E l \in ShortLists \cup LongLists : new_headers = Entries(l)
    /\ blk_files = 0
    /\ caller_pc = "drain"
    /\ ChannelsEmpty
    /\ RpcState("fetch")
    /\ FileState("idle")
    /\ entry_map = << >>
    /\ PbIdle
    /\ MxIdle
    /\ HhIdle

\* start_fetcher(FetchFrom::BlkFiles, ..)
InitBlkFiles ==
    /\ from = "BlkFiles"
    /\ \E l \in ShortLists : new_headers = Entries(l)
    /\ blk_files \in 0..MaxFiles
    /\ caller_pc = "drain"
    /\ ChannelsEmpty
    /\ RpcState("idle")
    /\ FileState("recv")
    /\ entry_map = EntryMapOf(new_headers)
    /\ PbIdle
    /\ MxIdle
    /\ HhIdle

Init == InitBitcoind \/ InitBlkFiles

Next ==
    \/ CallerRecv
    \/ CallerJoin
    \/ RpcFetch
    \/ RpcSend
    \/ RpcExit
    \/ ReaderRead
    \/ ReaderReadFail
    \/ ReaderSend
    \/ ReaderSendFail
    \/ ReaderExit
    \/ ParserRecv
    \/ ParserParse
    \/ ParserSend
    \/ ParserJoin
    \/ MatcherRecv
    \/ MatcherSend
    \/ MatcherJoin

Spec == Init /\ [][Next]_vars

-----------------------------------------------------------------------------
\* Properties of the fetch.

\* Every BlockEntry the consumer was handed, in order.
DeliveredEntries == Flatten(delivered)

RequestedHashes == {new_headers[i].hash : i \in DOMAIN new_headers}

DeliveredHashes ==
    LET handed == DeliveredEntries
    IN  {handed[k].entry.hash : k \in DOMAIN handed}

\* The requested headers have pairwise distinct identity hashes.
DistinctHashes == Cardinality(RequestedHashes) = Len(new_headers)

\* Some worker thread of the fetch has panicked.
WorkerFailed == "panicked" \in {rpc_pc, rd_pc, ps_pc, mt_pc}

\* C1: for requested headers of pairwise distinct identities, on either path, a
\* fetch that returns normally has handed the consumer exactly one BlockEntry
\* per requested entry and none for an entry that was not requested; so a run
\* that delivered only part of the list has not returned normally. (The
\* entries of a list differ in height, so as many BlockEntries as entries,
\* covering exactly the requested entries, is one BlockEntry for each.)
C1_ExactlyOnePerHeader ==
    (caller_pc = "done" /\ DistinctHashes) =>
        LET handed == DeliveredEntries
        IN  /\ Len(handed) = Len(new_headers)
            /\ {handed[k].entry : k \in DOMAIN handed} = Range(new_headers)

\* A file-path fetch of three headers found in two different files has
\* returned normally.
C1_Witness ==
    /\ caller_pc = "done"
    /\ from = "BlkFiles"
    /\ DistinctHashes
    /\ Len(new_headers) >= 3
    /\ Len(delivered) = 2
    /\ delivered[1] # <<>>
    /\ delivered[2] # <<>>

\* C2: every BlockEntry handed to the consumer pairs a block with the header
\* entry whose identity hash is the identity of that block's header.
C2_PairedByIdentity ==
    LET handed == DeliveredEntries
    IN  \A k \in DOMAIN handed :
            heavy_hash(handed[k].block.header) = handed[k].entry.hash

\* C3: on the file path, once every file has been read, parsed and matched,
\* k >= 1 requested identities that no block on disk matched make the matcher
\* fail reporting exactly k, the requested identities less the matched ones;
\* with k = 0 the matcher ends without failure.
C3_MissingCount ==
    (from = "BlkFiles" /\ ps_pc = "done" /\ Terminated(mt_pc)) =>
        LET k == Cardinality(RequestedHashes \ decoded)
        IN  /\ k >= 1 => /\ mt_pc = "panicked"
                         /\ panic_count = k
                         /\ k = Cardinality(RequestedHashes) - Len(Flatten(published))
            /\ k = 0 => mt_pc = "done" /\ panic_count = -1

\* Three headers requested, the files hold only the first and the third: the
\* matcher has failed reporting 1.
C3_Witness ==
    /\ from = "BlkFiles"
    /\ ps_pc = "done"
    /\ Len(new_headers) = 3
    /\ DistinctHashes
    /\ decoded = {new_headers[1].hash, new_headers[3].hash}
    /\ mt_pc = "panicked"
    /\ panic_count = 1

\* C4: once any worker has failed, Fetcher::map on the caller's thread does
\* not return normally, and it ends in the failure once it has joined; an
\* upstream failure is re-raised by every downstream stage that ends.
C4_FailurePropagates ==
    /\ WorkerFailed => caller_pc # "done"
    /\ (rd_pc = "panicked" /\ Terminated(ps_pc)) => ps_pc = "panicked"
    /\ (ps_pc = "panicked" /\ Terminated(mt_pc)) => mt_pc = "panicked"
    /\ (ProducerPc = "panicked" /\ Terminated(caller_pc)) => caller_pc = "panicked"

\* The read of the second file failed and the failure has reached the caller
\* through the parser and the matcher.
C4_Witness ==
    /\ rd_pc = "panicked"
    /\ rd_idx = 2
    /\ ps_pc = "panicked"
    /\ mt_pc = "panicked"
    /\ panic_count = -1
    /\ caller_pc = "panicked"

\* C5: the batches the consumer was invoked on, followed by the buffered ones,
\* are at all times the batches published, in publication order; a fetch that
\* has returned normally has had every published batch consumed, and on the
\* file path its pending map is empty.
C5_CompleteAfterAllBatches ==
    /\ published = delivered \o chan_out
    /\ caller_pc = "done" =>
          /\ delivered = published
          /\ from = "BlkFiles" => DOMAIN entry_map = {}

\* A file-path fetch has returned normally after two batches, the first of
\* them not empty.
C5_Witness ==
    /\ caller_pc = "done"
    /\ from = "BlkFiles"
    /\ Len(published) = 2
    /\ published[1] # <<>>
    /\ published[1] # published[2]

\* The getblocks answer to request k is usable: no error, as many blocks as
\* hashes asked for.
GoodReply(k) == replies[k].ok /\ Len(replies[k].blocks) = Len(requests[k])

\* C6: on the RPC path a list of n headers is requested in ceil(n/100)
\* consecutive batches of 100, the last one of n mod 100 when that is not
\* zero; one getblocks request per batch, in list order; the i-th block
\* returned for a batch is wrapped with the i-th header of the batch; n = 0
\* issues no request and publishes no batch.
C6_Batching ==
    from = "Bitcoind" =>
        LET n == Len(new_headers)
            batches == (n + 99) \div 100
        IN  /\ Len(requests) <= batches
            /\ \A k \in DOMAIN requests :
                  /\ Len(requests[k]) = IF k * 100 <= n THEN 100 ELSE n % 100
                  /\ \A i \in DOMAIN requests[k] :
                        requests[k][i] = heavy_hash(new_headers[(k - 1) * 100 + i].header)
            /\ \A k \in DOMAIN published :
                  /\ Len(published[k]) = Len(requests[k])
                  /\ \A i \in DOMAIN published[k] :
                        /\ published[k][i].block = replies[k].blocks[i]
                        /\ published[k][i].entry = new_headers[(k - 1) * 100 + i]
            /\ rpc_pc = "done" => Len(requests) = batches /\ Len(published) = batches
            /\ n = 0 => requests = <<>> /\ published = <<>>

\* 250 headers were fetched in three batches of 100, 100 and 50.
C6_Witness ==
    /\ from = "Bitcoind"
    /\ rpc_pc = "done"
    /\ Len(new_headers) = 250
    /\ Len(requests) = 3
    /\ Len(published[1]) = 100
    /\ Len(published[2]) = 100
    /\ Len(published[3]) = 50

\* C7: on the RPC path an error, or a number of returned blocks other than the
\* number of headers of the batch, ends the worker at that batch: nothing is
\* published for it, nothing is requested or published after it, and the
\* caller does not return normally.
C7_AbortAtBadBatch ==
    from = "Bitcoind" =>
        /\ \A k \in DOMAIN requests :
              ~GoodReply(k) =>
                  /\ rpc_pc = "panicked"
                  /\ k = Len(requests)
                  /\ Len(published) = k - 1
                  /\ caller_pc # "done"
        /\ (rpc_pc = "panicked" /\ Terminated(caller_pc)) => caller_pc = "panicked"

\* The second batch came back one block short after the first was published,
\* and the caller has ended in the failure.
C7_Witness ==
    /\ from = "Bitcoind"
    /\ Len(requests) = 2
    /\ replies[2].ok
    /\ Len(replies[2].blocks) = Len(requests[2]) - 1
    /\ Len(delivered) = 1
    /\ caller_pc = "panicked"

\* C8: on every hop at most one batch is buffered, and a producer has
\* completed at most one send more than its consumer has received; so on the
\* RPC path at most two more requests have been issued than batches received
\* by the caller.
C8_Backpressure ==
    /\ Len(chan_out) <= 1
    /\ Len(chan_blob) <= 1
    /\ Len(chan_sized) <= 1
    /\ Len(published) <= Len(delivered) + 1
    /\ from = "BlkFiles" =>
          /\ rd_idx - 1 <= ps_recvd + 1
          /\ ps_sent <= mt_recvd + 1
    /\ from = "Bitcoind" => Len(requests) <= Len(delivered) + 2

\* The RPC worker holds the third batch, blocked on the send: the second is
\* still buffered and the caller has received only the first.
C8_Witness ==
    /\ from = "Bitcoind"
    /\ rpc_pc = "send"
    /\ Len(requests) = 3
    /\ Len(chan_out) = 1
    /\ Len(delivered) = 1

\* C9, as claimed: a fetch that ended in failure has handed the consumer
\* nothing, or has handed it every requested header.
C9_NoPartialDelivery ==
    caller_pc = "panicked" =>
        DeliveredHashes = {} \/ DeliveredHashes = RequestedHashes

\* C9, amended: a fetch ends either normally, with every requested identity
\* delivered, or in a worker's failure, with exactly the batches published
\* before that failure delivered; a fetch that delivered only part of the
\* request has not ended normally.
C9_CompleteOrFatal ==
    /\ caller_pc = "done" => DeliveredHashes = RequestedHashes /\ ~WorkerFailed
    /\ caller_pc = "panicked" => WorkerFailed /\ delivered = published
    /\ (Terminated(caller_pc) /\ DeliveredHashes # RequestedHashes) =>
          caller_pc = "panicked"

\* A fetch has ended in failure after the consumer was handed some, not all,
\* of the requested headers.
C9_Witness ==
    /\ caller_pc = "panicked"
    /\ DeliveredHashes # {}
    /\ DeliveredHashes # RequestedHashes
    /\ DeliveredHashes \subseteq RequestedHashes

-----------------------------------------------------------------------------
\* parse_blocks on its own: the scan stepped one loop iteration at a time
\* over blobs made of garbage followed by framed records.

\* Bytes written before the first record.
Garbages == UNION {[1..n -> {1, 2}] : n \in 0..MaxGarbage}

\* Record payloads: runs of the magic's own byte pattern, of the pattern
\* shifted by one byte, and of a byte repeated.
Payloads ==
    UNION {{[i \in 1..n |-> IF i % 2 = 1 THEN 1 ELSE 2],
            [i \in 1..n |-> IF i % 2 = 1 THEN 2 ELSE 1],
            [i \in 1..n |-> 2]} : n \in 0..MaxPayload}

RecordLists == UNION {[1..n -> Payloads] : n \in 0..MaxParseRecs}

\* Length fields of a header whose payload was never written: less than a
\* header, exactly the longest record that may follow, more than any blob.
TruncLens == {1, 8 + MaxPayload, 4 * (8 + MaxPayload)}

\* What Core leaves when the write of a payload fails: magic and length only.
TruncHeader(len) == IF len < 0 THEN <<>> ELSE MagicBytes \o U32LE(len)

\* The blob: the garbage, the header without payload if any, then every
\* record framed.
BlobOf(garbage, trunc, records) ==
    garbage \o TruncHeader(trunc)
            \o Flatten([i \in DOMAIN records |-> Frame(records[i])])

InitParse ==
    /\ from = "None"
    /\ new_headers = <<>>
    /\ blk_files = 0
    /\ caller_pc = "idle"
    /\ ChannelsEmpty
    /\ RpcState("idle")
    /\ FileState("idle")
    /\ entry_map = << >>
    /\ pb_garbage \in Garbages
    /\ pb_records \in RecordLists
    /\ pb_trunc \in {-1} \cup TruncLens
    /\ pb_blob = BlobOf(pb_garbage, pb_trunc, pb_records)
    /\ pb_pc = "scan"
    /\ pb_cursor = 0
    /\ pb_slices = <<>>
    /\ pb_prev = -1
    /\ MxIdle
    /\ HhIdle

\* One iteration of the while loop of parse_blocks.
PbScan ==
    /\ pb_pc = "scan"
    /\ LET r == ScanStep(pb_blob, pb_cursor, pb_slices)
       IN  /\ pb_pc' = r.pc
           /\ pb_cursor' = r.cursor
           /\ pb_slices' = r.slices
    /\ pb_prev' = pb_cursor
    /\ UNCHANGED <<pb_garbage, pb_trunc, pb_records, pb_blob, inputVars, callerVars,
                   chan_out, published, rpcVars, readerVars, chan_blob, parserVars,
                   chan_sized, matchVars, mxVars, hhVars>>

NextParse == PbScan

SpecParse == InitParse /\ [][NextParse]_vars

\* No 4 bytes starting inside the garbage are the magic, the 4 bytes that
\* run over into the first record included.
GarbageHasNoMagic ==
    \A p \in 0..(Len(pb_garbage) - 1) :
        p + 4 <= Len(pb_blob) => U32At(pb_blob, p) # magic

\* The blob is garbage and framed records only.
NoTruncHeader == pb_trunc = -1

\* The slices a scan has to queue: every record's payload with its length.
ExpectedSlices == [i \in DOMAIN pb_records |-> <<pb_records[i], Len(pb_records[i])>>]

\* The last iteration read 4 bytes that were not the magic.
LastWasMismatch ==
    /\ pb_prev >= 0
    /\ pb_prev + 4 <= Len(pb_blob)
    /\ U32At(pb_blob, pb_prev) # magic

\* C10, as claimed: for garbage holding no magic followed by N framed records,
\* the scan queues exactly the N payloads with their lengths, and every magic
\* mismatch advances the scan position by exactly one byte.
C10_ResyncAnyRecords ==
    /\ (pb_pc # "scan" /\ NoTruncHeader /\ GarbageHasNoMagic) =>
          pb_pc = "exit" /\ pb_slices = ExpectedSlices
    /\ LastWasMismatch => pb_cursor = pb_prev + 1

\* Every payload has at least 4 bytes and does not begin with the magic.
PayloadsClearOfGuard ==
    \A i \in DOMAIN pb_records :
        Len(pb_records[i]) >= 4 /\ U32At(pb_records[i], 0) # magic

\* C10, amended: the same, for records whose payloads have at least 4 bytes
\* and do not begin with the magic (the 4 bytes the truncation guard peeks at).
C10_ResyncGuardedRecords ==
    /\ (pb_pc # "scan" /\ NoTruncHeader /\ GarbageHasNoMagic /\ PayloadsClearOfGuard) =>
          pb_pc = "exit" /\ pb_slices = ExpectedSlices
    /\ LastWasMismatch => pb_cursor = pb_prev + 1

\* Two garbage bytes, the second of them the magic's first byte, were skipped
\* one at a time and both records that follow were queued.
C10_Witness ==
    /\ pb_pc = "exit"
    /\ pb_garbage = <<2, 1>>
    /\ NoTruncHeader
    /\ GarbageHasNoMagic
    /\ PayloadsClearOfGuard
    /\ Len(pb_records) = 2
    /\ pb_slices = ExpectedSlices

-----------------------------------------------------------------------------
\* The truncation guard.

\* The iteration that began at pb_prev matched a header whose length field is
\* immediately followed by the magic.
LastWasTruncated ==
    /\ pb_prev >= 0
    /\ pb_prev + 12 <= Len(pb_blob)
    /\ U32At(pb_blob, pb_prev) = magic
    /\ U32At(pb_blob, pb_prev + 8) = magic

\* A queued slice was cut at a position where the magic stands.
SliceBeginsWithMagic ==
    \E i \in DOMAIN pb_slices :
        Len(pb_slices[i][1]) >= 4 /\ U32At(pb_slices[i][1], 0) = magic

\* C11: an iteration that finds the magic right after a matched
\* [magic][length] header queues nothing, leaves the cursor right after the
\* length field and goes on scanning; no queued slice begins with the magic;
\* and when a header without payload stands before the records, the scan ends
\* with exactly the records' payloads and lengths queued, the first record
\* included.
C11_TruncationGuard ==
    /\ LastWasTruncated => pb_pc = "scan" /\ pb_cursor = pb_prev + 8
    /\ ~SliceBeginsWithMagic
    /\ (pb_pc # "scan" /\ pb_trunc >= 0 /\ pb_records # <<>>
          /\ GarbageHasNoMagic /\ PayloadsClearOfGuard) =>
          pb_pc = "exit" /\ pb_slices = ExpectedSlices

\* A header claiming more bytes than the blob holds stood before two records;
\* the scan is over and both records are queued.
C11_Witness ==
    /\ pb_pc = "exit"
    /\ pb_trunc = 4 * (8 + MaxPayload)
    /\ GarbageHasNoMagic
    /\ PayloadsClearOfGuard
    /\ Len(pb_records) = 2
    /\ pb_slices = ExpectedSlices

-----------------------------------------------------------------------------
\* The parser worker and a slice that does not decode.

\* The scan of the blob ends normally and queues a slice that deserialize
\* rejects.
SliceFails(blob) ==
    LET r == ScanFrom(blob, 0, <<>>)
    IN  r.pc = "exit" /\ \E i \in DOMAIN r.slices : ~CanDeserialize(r.slices[i][1])

\* The files of the disk that hold such a slice.
SliceFailing == {blob \in DiskBlobs : SliceFails(blob)}

\* The parse of every file of the disk, tabulated.
ParsedBlobs == [blob \in DiskBlobs |-> parse_blocks(blob)]

\* C12: when a blob the parser received holds a slice that does not decode,
\* that blob is the last one the parser received, the parser thread is parsing
\* it or has panicked, the batches it sent are exactly those of the blobs before (none
\* for the failing blob, its decodable slices included), and neither the
\* matcher nor the fetch ends normally.
C12_BadSliceIsFatal ==
    \A k \in 1..ps_recvd :
        blobs[k] \in SliceFailing =>
            /\ k = ps_recvd
            /\ ps_pc \in {"parse", "panicked"}
            /\ sized = [i \in 1..(k - 1) |-> ParsedBlobs[blobs[i]].blocks]
            /\ mt_pc # "done"
            /\ caller_pc # "done"
            /\ Terminated(caller_pc) => caller_pc = "panicked"

\* The second file held block 1 followed by a record that does not decode:
\* the fetch ended in failure with the first file's batch only, block 1 was
\* requested and never looked up by the matcher.
C12_Witness ==
    /\ from = "BlkFiles"
    /\ ps_recvd = 2
    /\ SliceFails(blobs[2])
    /\ Len(ScanFrom(blobs[2], 0, <<>>).slices) = 2
    /\ Len(sized) = 1
    /\ 1 \in {new_headers[i].header : i \in DOMAIN new_headers}
    /\ heavy_hash(1) \notin decoded
    /\ caller_pc = "panicked"

-----------------------------------------------------------------------------
\* The matcher and the blocks it was not waiting for.

\* The batches the matcher has built, one per SizedBlock batch it received.
MatcherBatches == IF mt_pc = "send" THEN Append(published, mt_out) ELSE published

\* The identities emitted in the first n batches of the matcher.
EmittedIn(n) ==
    LET b == MatcherBatches
    IN  UNION {{b[k][i].entry.hash : i \in DOMAIN b[k]} : k \in 1..n}

\* Batch k of the parser without the blocks that were not pending when it
\* arrived.
PendingBlocksOf(k) ==
    LET waiting == RequestedHashes \ EmittedIn(k - 1)
        kept == SelectSeq(sized[k], LAMBDA sb : heavy_hash(sb[1].header) \in waiting)
    IN  [i \in DOMAIN kept |-> kept[i][1]]

\* C13: on the file path every batch the matcher built holds exactly the
\* blocks of the received batch whose identity was still pending, in their
\* order: a block that was never requested, or whose identity was emitted
\* before, yields no BlockEntry and the blocks after it are still matched; the
\* pending map loses the emitted identities only; and the matcher fails only
\* once every batch of the parser has been received and the parser has ended.
C13_DiscardNotPending ==
    from = "BlkFiles" =>
        LET b == MatcherBatches
        IN  /\ Len(b) = mt_recvd
            /\ \A k \in DOMAIN b :
                   [i \in DOMAIN b[k] |-> b[k][i].block] = PendingBlocksOf(k)
            /\ DOMAIN entry_map = RequestedHashes \ EmittedIn(Len(b))
            /\ mt_pc = "panicked" => Terminated(ps_pc) /\ mt_recvd = Len(sized)

\* A fetch returned normally although the first file held a block nobody
\* requested ahead of a requested one, and the second file a second copy of a
\* block already matched.
C13_Witness ==
    /\ caller_pc = "done"
    /\ Len(sized) = 2
    /\ Len(sized[1]) = 2
    /\ heavy_hash(sized[1][1][1].header) \notin RequestedHashes
    /\ Len(published[1]) = 1
    /\ Len(sized[2]) = 1
    /\ sized[2][1] = sized[1][2]
    /\ published[2] = <<>>

-----------------------------------------------------------------------------
\* The reader worker.

\* C14: on the file path fs::read is called on the files in list order, each
\* at most once, and on a file only after the blob of the file before it has
\* been sent; one blob is sent per file read; when the read of file j fails,
\* it is the last read, the reader thread has panicked, exactly the j - 1
\* blobs of the files before j have been sent, and no thread downstream of the
\* reader, the caller included, ends normally.
C14_ReaderInOrder ==
    from = "BlkFiles" =>
        /\ Len(reads) <= blk_files
        /\ \A j \in DOMAIN reads : reads[j][1] = j
        /\ Len(blobs) = rd_idx - 1
        /\ Len(reads) \in {Len(blobs), Len(blobs) + 1}
        /\ Len(reads) = Len(blobs) + 1 => rd_pc \in {"send", "panicked"}
        /\ \A j \in DOMAIN reads :
               ~reads[j][2] =>
                   /\ j = Len(reads)
                   /\ rd_pc = "panicked"
                   /\ Len(blobs) = j - 1
                   /\ "done" \notin {ps_pc, mt_pc, caller_pc}
                   /\ Terminated(caller_pc) => caller_pc = "panicked"

\* The read of the first of two files failed: the second was never read, no
\* blob was sent and the fetch ended in failure.
C14_Witness ==
    /\ blk_files = 2
    /\ reads = << <<1, FALSE>> >>
    /\ blobs = <<>>
    /\ caller_pc = "panicked"

-----------------------------------------------------------------------------
\* generateHeavyHashMatrix (src/util/heavyhash.rs), called twice in a row as
\* two calls of heavy_hash would.

\* MatrixMN<i32, U64, U64>
MatrixDim == 64
\* for shift in 0..16: the nibbles taken from one u64
WordNibbles == 16

Seeds == 1..MaxSeeds

\* Xoshiro256PlusPlus::from_seed(seed): a generator that has drawn no word.
from_seed(seed) == <<seed, 0>>

\* The k-th u64 (k = 0, 1, ..) a generator made from seed returns, as its 8
\* bytes, least significant first. The values stand for Xoshiro256PlusPlus's,
\* which is a fixed function of the seed and k as well.
StreamWord(seed, k) ==
    LET lo == (seed * 1000003 + k * 40503 + 12345) % 16777216
        hi == (seed * 123457 + k * 65599 + 54321) % 16777216
    IN  <<lo % 256, (lo \div 256) % 256, (lo \div 65536) % 256, (lo + hi) % 256,
          hi % 256, (hi \div 256) % 256, (hi \div 65536) % 256, (lo * 3 + hi) % 256>>

\* generator.next_u64(): the value returned and the generator it leaves.
next_u64(gen) == [value |-> StreamWord(gen[1], gen[2]), gen |-> <<gen[1], gen[2] + 1>>]

\* ((value >> (4 * shift)) & 0xF) as i32
Nibble(value, shift) ==
    LET byte == value[(shift \div 2) + 1]
    IN  IF shift % 2 = 0 THEN byte % 16 ELSE byte \div 16

\* MatrixMN::<i32, U64, U64>::zeros()
Zeros == [i \in 0..(MatrixDim - 1) |-> [j \in 0..(MatrixDim - 1) |-> 0]]

RECURSIVE Draw(_, _)
\* n calls of generator.next_u64() in a row: the values and the generator left.
Draw(gen, n) ==
    IF n = 0 THEN [values |-> <<>>, gen |-> gen]
    ELSE LET r    == next_u64(gen)
             rest == Draw(r.gen, n - 1)
         IN  [values |-> <<r.value>> \o rest.values, gen |-> rest.gen]

\* for j in (0..64).step_by(16) { value = generator.next_u64(); for shift in
\* 0..16 { matrix[(i, j + shift)] = nibble } }: one row filled from the next
\* words of gen.
FillRow(gen) ==
    LET d == Draw(gen, MatrixDim \div WordNibbles)
    IN  [row |-> [j \in 0..(MatrixDim - 1) |->
                    Nibble(d.values[(j \div WordNibbles) + 1], j % WordNibbles)],
         gen |-> d.gen]

is4BitPrecision(matrix) ==
    \A i \in 0..(MatrixDim - 1) : \A j \in 0..(MatrixDim - 1) :
        ~(matrix[i][j] < 0 \/ matrix[i][j] > 15)

\* The generator the next candidate is filled from, after a rejection: the
\* loop makes no new one.
AfterRejectReseed(gen, seed) == from_seed(seed)
AfterReject(gen, seed) == gen

\* One pass of `for i in 0..64`: row mx_i is filled.
GenRow ==
    /\ mx_pc = "fill"
    /\ LET r == FillRow(mx_gen)
       IN  /\ mx_matrix' = [mx_matrix EXCEPT ![mx_i] = r.row]
           /\ mx_gen' = r.gen
    /\ mx_i' = mx_i + 1
    /\ mx_pc' = IF mx_i + 1 = MatrixDim THEN "test" ELSE "fill"
    /\ UNCHANGED <<mx_call, mx_seed, mx_seedings, mx_rejects, mx_first, rank_memo,
                   inputVars, callerVars, chan_out, published, rpcVars, readerVars,
                   chan_blob, parserVars, chan_sized, matchVars, pbVars, hhVars>>

\* if is4BitPrecision(&matrix) && isFullRank(&matrix) { return matrix }.
\* isFullRank (the rank of the matrix as f64, tolerance 0.0001) is a function
\* of the matrix this model does not compute: its verdict on a matrix is
\* chosen when the matrix is first tested and is the same from then on.
GenTest ==
    /\ mx_pc = "test"
    /\ \E isFullRank \in BOOLEAN :
          /\ \A e \in rank_memo : e[1] = mx_matrix => e[2] = isFullRank
          /\ ~isFullRank => mx_rejects < MaxRejects
          /\ rank_memo' = rank_memo \cup {<<mx_matrix, isFullRank>>}
          /\ IF is4BitPrecision(mx_matrix) /\ isFullRank
             THEN /\ mx_pc' = "done"
                  /\ UNCHANGED <<mx_matrix, mx_i, mx_gen, mx_rejects>>
             ELSE /\ mx_pc' = "fill"
                  /\ mx_matrix' = Zeros
                  /\ mx_i' = 0
                  /\ mx_gen' = AfterReject(mx_gen, mx_seed)
                  /\ mx_rejects' = mx_rejects + 1
    /\ UNCHANGED <<mx_call, mx_seed, mx_seedings, mx_first, inputVars, callerVars,
                   chan_out, published, rpcVars, readerVars, chan_blob, parserVars,
                   chan_sized, matchVars, pbVars, hhVars>>

\* The first call has returned; generateHeavyHashMatrix is called again.
GenCall ==
    /\ mx_pc = "done"
    /\ mx_call = 1
    /\ mx_first' = [seed |-> mx_seed, matrix |-> mx_matrix]
    /\ mx_call' = 2
    /\ \E seed \in Seeds :
          /\ mx_seed' = seed
          /\ mx_gen' = from_seed(seed)
    /\ mx_seedings' = 1
    /\ mx_matrix' = Zeros
    /\ mx_i' = 0
    /\ mx_rejects' = 0
    /\ mx_pc' = "fill"
    /\ UNCHANGED <<rank_memo, inputVars, callerVars, chan_out, published, rpcVars,
                   readerVars, chan_blob, parserVars, chan_sized, matchVars, pbVars, hhVars>>

InitMatrix ==
    /\ from = "None"
    /\ new_headers = <<>>
    /\ blk_files = 0
    /\ caller_pc = "idle"
    /\ ChannelsEmpty
    /\ RpcState("idle")
    /\ FileState("idle")
    /\ entry_map = << >>
    /\ PbIdle
    /\ mx_pc = "fill"
    /\ mx_call = 1
    /\ mx_seed \in Seeds
    /\ mx_gen = from_seed(mx_seed)
    /\ mx_seedings = 1
    /\ mx_matrix = Zeros
    /\ mx_i = 0
    /\ mx_rejects = 0
    /\ mx_first = [seed |-> 0, matrix |-> <<>>]
    /\ rank_memo = {}
    /\ HhIdle

NextMatrix ==
    \/ GenRow
    \/ GenTest
    \/ GenCall

SpecMatrix == InitMatrix /\ [][NextMatrix]_vars

\* Entry (i, j) of the candidate built from the words first, first + 1, .. of
\* the stream of seed: word first + 4i + j div 16, byte (j mod 16) div 2, its
\* low half for even j and its high half for odd j.
EntryFromStream(seed, first, i, j) ==
    LET word == StreamWord(seed, first + 4 * i + (j \div 16))
        byte == word[((j % 16) \div 2) + 1]
    IN  IF j % 2 = 0 THEN byte % 16 ELSE byte \div 16

\* C15: a call makes its generator once, from its seed, and never another;
\* after r rejections and i filled rows it has drawn exactly 256r + 4i words;
\* the filled rows of the candidate hold the nibbles, low to high, of the
\* words 256r .. 256r + 4i - 1 of the seed's stream, four words per row, and
\* the other rows are zero; so the matrix returned after r rejections is built
\* from the words 256r .. 256r + 255, and a second call with the seed of the
\* first returns the matrix the first returned.
C15_SingleStream ==
    mx_pc # "idle" =>
        /\ mx_seedings = 1
        /\ mx_gen = <<mx_seed, 256 * mx_rejects + 4 * mx_i>>
        /\ mx_pc \in {"test", "done"} => mx_i = 64
        /\ \A i \in 0..63 : \A j \in 0..63 :
               mx_matrix[i][j] =
                   IF i < mx_i THEN EntryFromStream(mx_seed, 256 * mx_rejects, i, j)
                   ELSE 0
        /\ (mx_pc = "done" /\ mx_call = 2 /\ mx_first.seed = mx_seed) =>
               mx_matrix = mx_first.matrix

\* Both calls were given the same seed, each rejected two candidates and
\* returned the third.
C15_Witness ==
    /\ mx_pc = "done"
    /\ mx_call = 2
    /\ mx_first.seed = mx_seed
    /\ mx_rejects = 2
    /\ mx_gen[2] = 768
    /\ mx_matrix = mx_first.matrix

-----------------------------------------------------------------------------
\* The end of the blob right after a frame header.

\* The iteration that began at pb_prev matched the magic and read a length
\* field, and fewer than 4 bytes of the blob follow the length field.
LastWasShortTail ==
    /\ pb_prev >= 0
    /\ pb_prev + 8 <= Len(pb_blob)
    /\ U32At(pb_blob, pb_prev) = magic
    /\ pb_prev + 12 > Len(pb_blob)

\* C16: an iteration that finds fewer than 4 bytes after a matched
\* [magic][length] header leaves the loop normally, with the slices queued
\* before it kept and none added.
C16_ShortTailIsEof ==
    LastWasShortTail =>
        /\ pb_pc = "exit"
        /\ \A i \in DOMAIN pb_slices : pb_slices[i] = ExpectedSlices[i]

-----------------------------------------------------------------------------
\* Termination of the fetch.

\* The steps of each thread.
CallerThread  == CallerRecv \/ CallerJoin
RpcThread     == RpcFetch \/ RpcSend \/ RpcExit
ReaderThread  == ReaderRead \/ ReaderReadFail \/ ReaderSend \/ ReaderSendFail \/ ReaderExit
ParserThread  == ParserRecv \/ ParserParse \/ ParserSend \/ ParserJoin
MatcherThread == MatcherRecv \/ MatcherSend \/ MatcherJoin

\* The fetch under a fair scheduler: a thread that can take a step is not
\* held back forever. Every consumer call, RPC call and file read returns:
\* each is one step of its thread.
SpecFair ==
    /\ Spec
    /\ WF_vars(CallerThread)
    /\ WF_vars(RpcThread)
    /\ WF_vars(ReaderThread)
    /\ WF_vars(ParserThread)
    /\ WF_vars(MatcherThread)

\* Every thread of the fetch has returned or unwound.
AllTerminated ==
    /\ Terminated(caller_pc)
    /\ \A pc \in {rpc_pc, rd_pc, ps_pc, mt_pc} : pc = "idle" \/ Terminated(pc)

\* C17: under fair scheduling every fetch reaches a state where Fetcher::map
\* has returned or panicked and every worker thread has returned or unwound,
\* and stays there; and in every state where some thread is still live, some
\* thread can take a step.
C17_Terminates ==
    /\ [](~AllTerminated => ENABLED <<Next>>_vars)
    /\ <>[]AllTerminated

\* The parser failed on the first blob while two files were still to be sent:
\* the fetch ended in failure and the reader, which read both files without
\* error, ended on its failed send.
C17_Witness ==
    /\ AllTerminated
    /\ caller_pc = "panicked"
    /\ ps_pc = "panicked"
    /\ ps_recvd = 1
    /\ rd_pc = "panicked"
    /\ \A j \in DOMAIN reads : reads[j][2]
    /\ Len(reads) = 2

-----------------------------------------------------------------------------
\* The pending map.

\* The number of BlockEntries in the batches the matcher has built.
EmittedCount ==
    LET b == MatcherBatches
    IN  Len(Flatten(b))

\* C18: on the file path, in every state, the identities in the pending map
\* and the identities of the BlockEntries the matcher has built are disjoint
\* and together are exactly the requested identities; no identity was emitted
\* twice; and no step adds an identity to the pending map.
C18_PendingPartition ==
    /\ [](from = "BlkFiles" =>
            LET emitted == EmittedIn(Len(MatcherBatches))
            IN  /\ DOMAIN entry_map \cap emitted = {}
                /\ DOMAIN entry_map \cup emitted = RequestedHashes
                /\ EmittedCount = Cardinality(emitted))
    /\ [][DOMAIN entry_map' \subseteq DOMAIN entry_map]_vars

\* Two files held the same single block: the matcher emitted it from the
\* first, built an empty batch from the second, and still waits for another
\* header.
C18_Witness ==
    /\ mt_recvd = 2
    /\ Len(sized[1]) = 1
    /\ sized[2] = sized[1]
    /\ Len(published[1]) = 1
    /\ mt_pc = "send"
    /\ mt_out = <<>>
    /\ DOMAIN entry_map # {}

-----------------------------------------------------------------------------
\* What has been delivered when a failure reaches the caller.

\* The parser thread ended on a blob it could not parse: the last blob it
\* received got no batch.
ParserFailedOnBlob == ps_pc = "panicked" /\ ps_sent < ps_recvd

\* C19, as claimed: when Fetcher::map has surfaced a failure, the consumer was
\* invoked on every batch sent to the caller, in order; and on the file path
\* every blob the reader sent, but for one the parser failed on, was parsed,
\* matched and delivered.
C19_AllSentBlobsDelivered ==
    caller_pc = "panicked" =>
        /\ delivered = published
        /\ from = "BlkFiles" =>
              Len(delivered) = Len(blobs) - (IF ParserFailedOnBlob THEN 1 ELSE 0)

\* C19, amended: when Fetcher::map has surfaced a failure, the consumer was
\* invoked on every batch sent to the caller, in order; on the file path
\* every batch the parser sent is the parse of the blob of the same rank, and
\* was matched and delivered; when the parser did not fail on a blob these
\* are all the blobs the reader sent, and when it did they are the blobs
\* received before that one, at most one further blob being left unparsed in
\* the channel.
C19_DrainBeforeFailure ==
    caller_pc = "panicked" =>
        /\ delivered = published
        /\ from = "BlkFiles" =>
              /\ Len(delivered) = Len(sized)
              /\ sized = [k \in 1..ps_sent |-> ParsedBlobs[blobs[k]].blocks]
              /\ \A k \in DOMAIN delivered :
                     [i \in DOMAIN delivered[k] |-> delivered[k][i].block]
                         = PendingBlocksOf(k)
              /\ ~ParserFailedOnBlob => ps_sent = Len(blobs)
              /\ ParserFailedOnBlob =>
                     /\ ps_sent = ps_recvd - 1
                     /\ Len(blobs) \in {ps_recvd, ps_recvd + 1}
                     /\ chan_blob = SubSeq(blobs, ps_recvd + 1, Len(blobs))

\* The parser failed on the second blob after the batch of the first, which
\* held a requested block, had been sent: the consumer was handed that batch
\* before the failure surfaced.
C19_Witness ==
    /\ caller_pc = "panicked"
    /\ ParserFailedOnBlob
    /\ ps_recvd = 2
    /\ Len(delivered) = 1
    /\ delivered[1] # <<>>

-----------------------------------------------------------------------------
\* One batch per block-store file.

\* C20: on the file path the batches sent to the caller are, in order, those
\* of the first files of the list: batch k holds the still-pending blocks of
\* the parse of the k-th blob read, empty when there is none; and a fetch that
\* returned normally has read every file of the list, parsed every blob and
\* handed the consumer exactly one batch per file, whether or not the pending
\* map was empty before the last file.
C20_OneBatchPerFile ==
    from = "BlkFiles" =>
        /\ Len(published) <= Len(sized)
        /\ Len(sized) <= Len(blobs)
        /\ Len(blobs) <= blk_files
        /\ \A k \in DOMAIN sized : sized[k] = ParsedBlobs[blobs[k]].blocks
        /\ \A k \in DOMAIN published :
               [i \in DOMAIN published[k] |-> published[k][i].block] = PendingBlocksOf(k)
        /\ caller_pc = "done" =>
               /\ Len(reads) = blk_files
               /\ \A j \in 1..blk_files : reads[j] = <<j, TRUE>>
               /\ Len(blobs) = blk_files
               /\ Len(sized) = blk_files
               /\ delivered = published
               /\ Len(delivered) = blk_files

\* The only requested block came with the first of two files; the second file
\* was read and parsed all the same, and the consumer was handed a second,
\* empty batch before the fetch returned normally.
C20_Witness ==
    /\ caller_pc = "done"
    /\ blk_files = 2
    /\ Len(new_headers) = 1
    /\ Len(delivered) = 2
    /\ Len(delivered[1]) = 1
    /\ delivered[2] = <<>>
    /\ blobs[2] # <<>>

-----------------------------------------------------------------------------
\* heavy_hash_internal (src/util/heavyhash.rs): the nibbles of hash1, the
\* product with the matrix, the shift by 10 and the fold into 32 bytes. The
\* two SHA3-256 calls are outside the model: hash1 is any 32 bytes, and the
\* model stops at preout. The i32 arithmetic of the code is the integers' as
\* long as no value leaves the i32 range (I32Max).

\* hash1 and preout are 32 bytes; x, y and truncated have 64 entries.
HashLen == 32
I32Max == 2147483647

\* MatrixMN<i32, U64, U64> inputs: every constant matrix with an entry in
\* 0..15, 15 on the diagonal only, entries (i + j) mod 16, and the first
\* candidate generateHeavyHashMatrix fills from each seed.
ConstMatrix(v) == [i \in 0..(MatrixDim - 1) |-> [j \in 0..(MatrixDim - 1) |-> v]]
DiagMatrix == [i \in 0..(MatrixDim - 1) |->
                 [j \in 0..(MatrixDim - 1) |-> IF i = j THEN 15 ELSE 0]]
RampMatrix == [i \in 0..(MatrixDim - 1) |->
                 [j \in 0..(MatrixDim - 1) |-> (i + j) % 16]]

\* The candidate the loops of generateHeavyHashMatrix fill from a generator
\* just made from seed: row i takes the words 4i .. 4i + 3 the generator
\* returns, column j + shift the nibble shift of the word drawn for j.
GeneratedMatrix(seed) ==
    [i \in 0..(MatrixDim - 1) |->
        [j \in 0..(MatrixDim - 1) |->
            Nibble(StreamWord(seed, (MatrixDim \div WordNibbles) * i + (j \div WordNibbles)),
                   j % WordNibbles)]]

HashMatrices ==
    {ConstMatrix(v) : v \in 0..15} \cup {DiagMatrix, RampMatrix}
        \cup {GeneratedMatrix(seed) : seed \in Seeds}

\* hash1 inputs: 32 equal bytes, and 32 bytes that differ.
HashBytes == {0, 1, 15, 16, 17, 240, 255}
HashRamps == 0..3
Hash1s ==
    {[i \in 0..(HashLen - 1) |-> b] : b \in HashBytes}
        \cup {[i \in 0..(HashLen - 1) |-> (i * 37 + k * 101) % 256] : k \in HashRamps}

\* acc.push((*b as i32) >> 4); acc.push((*b as i32) & 0x0F): entry 2k of x is
\* the high half of byte k of hash1, entry 2k + 1 its low half.
x(hash1) ==
    [k \in 0..(2 * HashLen - 1) |->
        IF k % 2 = 0 THEN hash1[k \div 2] \div 16 ELSE hash1[k \div 2] % 16]

RECURSIVE RowDot(_, _, _)
\* The sum of row[j] * vec[j] over j < n.
RowDot(row, vec, n) ==
    IF n = 0 THEN 0 ELSE RowDot(row, vec, n - 1) + row[n - 1] * vec[n - 1]

\* seed * xMatrix: entry i is row i of the matrix times the vector.
matrixMul(seed, xMatrix) ==
    [i \in 0..(MatrixDim - 1) |-> RowDot(seed[i], xMatrix, MatrixDim)]

\* b >> 10 on an i32: the arithmetic shift, the floor of b / 1024.
TruncateBy9(b) == b \div 512
Truncate(b) == b \div 1024

RECURSIVE BitOr(_, _)
\* a | b, for a and b not negative.
BitOr(a, b) ==
    IF a = 0 THEN b
    ELSE IF b = 0 THEN a
    ELSE (IF a % 2 = 1 \/ b % 2 = 1 THEN 1 ELSE 0) + 2 * BitOr(a \div 2, b \div 2)

RECURSIVE BitXor(_, _)
\* a ^ b, for a and b not negative.
BitXor(a, b) ==
    IF a = 0 THEN b
    ELSE IF b = 0 THEN a
    ELSE ((a + b) % 2) + 2 * BitXor(a \div 2, b \div 2)

\* let res = ((*a << 4) | *b) ^ (*h as i32)
res(a, b, h) == BitXor(BitOr(a * 16, b), h)

\* res.try_into(): i32 to u8 succeeds for 0..255 only.
FitsU8(v) == v >= 0 /\ v <= 255

\* let mut x = hash1.iter().fold(..)
HashSplit ==
    /\ hh_pc = "split"
    /\ hh_x' = x(hh_hash1)
    /\ hh_pc' = "mul"
    /\ UNCHANGED <<hh_seed, hh_hash1, hh_y, hh_truncated, hh_preout, hh_i, inputVars,
                   callerVars, chan_out, published, rpcVars, readerVars, chan_blob,
                   parserVars, chan_sized, matchVars, pbVars, mxVars>>

\* let matrixMul = seed * xMatrix; let y = matrixMul.as_slice()
HashMul ==
    /\ hh_pc = "mul"
    /\ hh_y' = matrixMul(hh_seed, hh_x)
    /\ hh_pc' = "trunc"
    /\ UNCHANGED <<hh_seed, hh_hash1, hh_x, hh_truncated, hh_preout, hh_i, inputVars,
                   callerVars, chan_out, published, rpcVars, readerVars, chan_blob,
                   parserVars, chan_sized, matchVars, pbVars, mxVars>>

\* let truncated = y.iter().map(|b| b >> 10).collect_vec()
HashTruncate ==
    /\ hh_pc = "trunc"
    /\ hh_truncated' = [k \in DOMAIN hh_y |-> Truncate(hh_y[k])]
    /\ hh_pc' = "fold"
    /\ UNCHANGED <<hh_seed, hh_hash1, hh_x, hh_y, hh_preout, hh_i, inputVars,
                   callerVars, chan_out, published, rpcVars, readerVars, chan_blob,
                   parserVars, chan_sized, matchVars, pbVars, mxVars>>

\* One pass of `for i in 0..(truncated.len() / 2)`: the byte is pushed, or
\* try_into() fails and unwrap() panics.
HashFold ==
    /\ hh_pc = "fold"
    /\ LET a == hh_truncated[2 * hh_i]
           b == hh_truncated[2 * hh_i + 1]
           h == hh_hash1[hh_i]
       IN  \E r \in {res(a, b, h)} :
              IF FitsU8(r)
              THEN /\ hh_preout' = Append(hh_preout, r)
                   /\ hh_i' = hh_i + 1
                   /\ hh_pc' = IF hh_i + 1 = HashLen THEN "done" ELSE "fold"
              ELSE /\ hh_pc' = "panic"
                   /\ UNCHANGED <<hh_preout, hh_i>>
    /\ UNCHANGED <<hh_seed, hh_hash1, hh_x, hh_y, hh_truncated, inputVars,
                   callerVars, chan_out, published, rpcVars, readerVars, chan_blob,
                   parserVars, chan_sized, matchVars, pbVars, mxVars>>

\* heavy_hash_internal entered with a matrix and, after the first SHA3-256,
\* a hash1.
InitHash ==
    /\ from = "None"
    /\ new_headers = <<>>
    /\ blk_files = 0
    /\ caller_pc = "idle"
    /\ ChannelsEmpty
    /\ RpcState("idle")
    /\ FileState("idle")
    /\ entry_map = << >>
    /\ PbIdle
    /\ MxIdle
    /\ hh_pc = "split"
    /\ hh_seed \in HashMatrices
    /\ hh_hash1 \in Hash1s
    /\ hh_x = <<>>
    /\ hh_y = <<>>
    /\ hh_truncated = <<>>
    /\ hh_preout = <<>>
    /\ hh_i = 0

NextHash ==
    \/ HashSplit
    \/ HashMul
    \/ HashTruncate
    \/ HashFold

SpecHash == InitHash /\ [][NextHash]_vars

\* The inputs of the claim: a matrix with entries in 0..15 and 32 bytes.
HashInputsInDomain ==
    /\ is4BitPrecision(hh_seed)
    /\ \A k \in 0..(HashLen - 1) : hh_hash1[k] \in 0..255

\* C21: for a matrix with entries in 0..15 and any 32-byte hash1, the entries
\* of x lie in 0..15; every entry of the product y lies in 0..14400, far
\* inside the i32 range; every truncated value is y[k] >> 10 and lies in
\* 0..14; every fold value, those already pushed and those still to come,
\* lies in 0..255 and is (16 * t[2i] + t[2i+1]) XOR hash1[i]; so the
\* conversion to a byte never fails: heavy_hash_internal never panics there
\* and pushes all 32 bytes.
C21_FoldRange ==
    (hh_pc # "idle" /\ HashInputsInDomain) =>
        /\ hh_pc # "panic"
        /\ hh_pc \in {"mul", "trunc", "fold", "done"} =>
               \A k \in 0..63 : hh_x[k] \in 0..15
        /\ hh_pc \in {"trunc", "fold", "done"} =>
               \A k \in 0..63 : hh_y[k] >= 0 /\ hh_y[k] <= 14400 /\ hh_y[k] <= I32Max
        /\ hh_pc \in {"fold", "done"} =>
               /\ \A k \in 0..63 :
                      /\ hh_truncated[k] = hh_y[k] \div 1024
                      /\ hh_truncated[k] \in 0..14
               /\ \A i \in 0..31 :
                      LET v == BitXor(16 * hh_truncated[2 * i] + hh_truncated[2 * i + 1],
                                      hh_hash1[i])
                      IN  /\ v \in 0..255
                          /\ i < Len(hh_preout) => hh_preout[i + 1] = v
               /\ Len(hh_preout) = hh_i
        /\ hh_pc = "done" => Len(hh_preout) = 32

\* Every entry of the matrix and every nibble of hash1 is 15: each entry of
\* the product is the largest possible, 64 * 15 * 15 = 14400, each truncated
\* value is 14, and all 32 bytes were pushed.
C21_Witness ==
    /\ hh_pc = "done"
    /\ \A k \in 0..63 : hh_y[k] = 14400 /\ hh_truncated[k] = 14
    /\ Len(hh_preout) = 32
    /\ hh_preout[1] = 17

====
